---- MODULE Spec2Model ----
(***************************************************************************)
(* Model of the live conversation session manager (LiveConversation):      *)
(* session start/stop with the session token, the streaming connection's   *)
(* callbacks, transcript merging and commit, and playback scheduling.      *)
(*                                                                         *)
(* Texts are sequences of one-character strings; " " is whitespace.        *)
(* A start attempt, the microphone stream it acquires and the connection   *)
(* it opens are all named by the token the attempt captured.               *)
(* Times are integers (one unit of the output context's clock).            *)
(***************************************************************************)
EXTENDS Integers, Sequences, FiniteSets, TLC

\* ---------------------------------------------------------------- bounds
MaxToken == 3        \* start()/stop() calls in a behaviour
MaxMsgs == 1         \* inbound messages in a behaviour of Spec
MaxTurnMsgs == 2     \* inbound messages in a behaviour of SpecTranscript
MaxDelta == 1        \* length of a transcription delta of SpecTranscript
MaxLen == 3          \* length of the texts of SpecMerge
MaxChunks == 2       \* audio chunks in a behaviour of SpecPlayback
MaxFlush == 1        \* interruptions in a behaviour of SpecPlayback
MaxClock == 2        \* last value of the output clock
MaxDen == 3          \* microphone samples are the multiples of 1/MaxDen in [-1, 1]

VARIABLES
  sessionToken,            \* sessionTokenRef.current
  attempts,                \* token -> position of that startSession() call
  audioContextInRef,       \* token of the start that created it, 0 = null
  audioContextOutRef,
  streamRef,               \* stream held in streamRef.current, 0 = null
  streams,                 \* stream -> "none" | "live" | "stopped"
  sessionRef,              \* connection held in sessionRef.current, 0 = null
  conns,                   \* connection -> "none" | "connecting" | "open" | "closing" | "closed"
  isActive,
  transcription,           \* React state: committed items
  transcriptionRef,        \* transcriptionRef.current: committed items
  activeUserText,
  activeModelText,
  isModelSpeaking,
  currentInputText,
  currentOutputText,
  lastCommittedInputRef,
  lastCommittedOutputRef,
  sourcesRef,              \* sourcesRef.current: the sources, each with its schedule
  nextStartTimeRef,
  currentTime,             \* audioContextOutRef.current.currentTime
  tasks,                   \* onmessage handlers suspended in `await decodeAudioData`
  lastStarted,             \* history: <<the source started last>> since the last interruption
  stoppedSources,          \* history: source ids on which stop() was called
  chunkCount,              \* history: audio chunks received so far
  flushCount,              \* history: interruptions handled so far
  flushChunk,              \* history: chunkCount at the last interruption
  msgCount,                \* history: messages received so far
  state,                   \* App: "ACTIVE" (LiveConversation shown) | "EVALUATION"
  history,                 \* App: the array held, "initial" | "transcriptionRef"
  mounted,                 \* LiveConversation's mount effect has not been cleaned up
  handed,                  \* history: <<the items of the array when onEnd passed it>>
  lastOp                   \* history: the operation of the last step

lifecycleVars == <<sessionToken, attempts, audioContextInRef, audioContextOutRef,
                   streamRef, streams, sessionRef, conns, isActive>>
textVars == <<transcription, transcriptionRef, activeUserText, activeModelText,
              currentInputText, currentOutputText,
              lastCommittedInputRef, lastCommittedOutputRef>>
appVars == <<state, history, mounted, handed>>
audioVars == <<sourcesRef, nextStartTimeRef, tasks, lastStarted, stoppedSources,
               chunkCount, flushCount, flushChunk>>
vars == <<sessionToken, attempts, audioContextInRef, audioContextOutRef,
          streamRef, streams, sessionRef, conns, isActive,
          transcription, transcriptionRef, activeUserText, activeModelText,
          isModelSpeaking, currentInputText, currentOutputText,
          lastCommittedInputRef, lastCommittedOutputRef,
          sourcesRef, nextStartTimeRef, currentTime, tasks, lastStarted,
          stoppedSources, chunkCount, flushCount, flushChunk, msgCount, lastOp,
          state, history, mounted, handed>>

Tokens == 1..MaxToken

Max(a, b) == IF a >= b THEN a ELSE b

\* the ids of a set of sources
Ids(S) == {x.id : x \in S}

\* ------------------------------------------------------------------ texts
Chars == {"a", "b", " "}

Texts(chars, n) == UNION {[1..k -> chars] : k \in 0..n}

\* String.prototype.startsWith
StartsWith(s, p) == Len(p) <= Len(s) /\ SubSeq(s, 1, Len(p)) = p

RECURSIVE TrimStart(_)
TrimStart(s) ==
  IF s = <<>> THEN s
  ELSE IF Head(s) = " " THEN TrimStart(Tail(s)) ELSE s

RECURSIVE TrimEnd(_)
TrimEnd(s) ==
  IF s = <<>> THEN s
  ELSE IF s[Len(s)] = " " THEN TrimEnd(SubSeq(s, 1, Len(s) - 1)) ELSE s

\* String.prototype.trim
Trim(s) == TrimEnd(TrimStart(s))

mergeTranscript_alwaysAppend(current, incoming) ==
  IF incoming = <<>> THEN current ELSE current \o incoming

\* a merge that takes the incoming text whenever there is one
mergeTranscript_replace(current, incoming) ==
  IF incoming = <<>> THEN current ELSE incoming

mergeTranscript(current, incoming) ==
  IF incoming = <<>> THEN current
  ELSE IF StartsWith(incoming, current) THEN incoming
  ELSE IF StartsWith(current, incoming) THEN current
  ELSE current \o incoming

\* ------------------------------------------------------------------- Init
Init ==
  /\ sessionToken = 0
  /\ attempts = [e \in Tokens |-> "idle"]
  /\ audioContextInRef = 0
  /\ audioContextOutRef = 0
  /\ streamRef = 0
  /\ streams = [e \in Tokens |-> "none"]
  /\ sessionRef = 0
  /\ conns = [e \in Tokens |-> "none"]
  /\ isActive = FALSE
  /\ transcription = <<>>
  /\ transcriptionRef = <<>>
  /\ activeUserText = <<>>
  /\ activeModelText = <<>>
  /\ isModelSpeaking = FALSE
  /\ currentInputText = <<>>
  /\ currentOutputText = <<>>
  /\ lastCommittedInputRef = <<>>
  /\ lastCommittedOutputRef = <<>>
  /\ sourcesRef = {}
  /\ nextStartTimeRef = 0
  /\ currentTime = 0
  /\ tasks = <<>>
  /\ lastStarted = <<>>
  /\ stoppedSources = {}
  /\ chunkCount = 0
  /\ flushCount = 0
  /\ flushChunk = 0
  /\ msgCount = 0
  /\ lastOp = [op |-> "init"]
  /\ state = "ACTIVE"
  /\ history = "initial"
  /\ mounted = TRUE
  /\ handed = <<>>

\* -------------------------------------------------------------- lifecycle
\* stopSession, `if (sessionRef.current) { close(); ... }`: the connections
\* after closing the held one.
closeSession(ref) ==
  IF ref # 0 /\ conns[ref] = "open"
    THEN [conns EXCEPT ![ref] = "closing"]
    ELSE conns

stopTracks_keepLive(ref) == streams

\* stopSession, `if (streamRef.current) getTracks().forEach(stop)`: the
\* streams after stopping the tracks of the held one.
stopTracks(ref) ==
  IF ref # 0 THEN [streams EXCEPT ![ref] = "stopped"] ELSE streams

stopToken_ifActive == IF isActive THEN sessionToken + 1 ELSE sessionToken

\* a stop that leaves the token alone
stopToken_same == sessionToken

\* stopSession, `sessionTokenRef.current += 1`
stopToken == sessionToken + 1

stopSession ==
  /\ sessionToken < MaxToken
  /\ sessionToken' = stopToken
  /\ conns' = closeSession(sessionRef)
  /\ sessionRef' = 0
  /\ streams' = stopTracks(streamRef)
  /\ stoppedSources' = stoppedSources \cup Ids(sourcesRef)
  /\ sourcesRef' = {}
  /\ isActive' = FALSE
  /\ lastOp' = [op |-> "stop", token |-> sessionToken']
  /\ UNCHANGED <<attempts, audioContextInRef, audioContextOutRef, streamRef,
                 nextStartTimeRef, currentTime, tasks, lastStarted,
                 chunkCount, flushCount, flushChunk, msgCount, isModelSpeaking>>
  /\ UNCHANGED textVars

\* startSession up to `await initializeAudio()`; initializeAudio up to
\* `await getUserMedia`: both audio contexts are constructed at once.
startSession ==
  /\ sessionToken < MaxToken
  /\ LET token == sessionToken + 1 IN
       /\ sessionToken' = token
       /\ attempts' = [attempts EXCEPT ![token] = "acquiring"]
       /\ audioContextInRef' = token
       /\ audioContextOutRef' = token
       /\ currentTime' = 0
       /\ lastOp' = [op |-> "start", token |-> token]
  /\ UNCHANGED <<streamRef, streams, sessionRef, conns, isActive,
                 isModelSpeaking, msgCount>>
  /\ UNCHANGED textVars
  /\ UNCHANGED audioVars
  /\ UNCHANGED appVars

\* getUserMedia resolves: initializeAudio stores the stream, then startSession
\* continues after `await initializeAudio()` up to `await sessionPromise`.
acquired(token) ==
  /\ attempts[token] = "acquiring"
  /\ streamRef' = token
  /\ streams' = [streams EXCEPT ![token] = "live"]
  /\ IF token # sessionToken
       THEN /\ attempts' = [attempts EXCEPT ![token] = "aborted"]
            /\ UNCHANGED <<isActive, conns>>
       ELSE /\ attempts' = [attempts EXCEPT ![token] = "connecting"]
            /\ isActive' = TRUE
            /\ conns' = [conns EXCEPT ![token] = "connecting"]
  /\ lastOp' = [op |-> "acquired", token |-> token]
  /\ UNCHANGED <<sessionToken, audioContextInRef, audioContextOutRef,
                 sessionRef, currentTime, isModelSpeaking, msgCount>>
  /\ UNCHANGED textVars
  /\ UNCHANGED audioVars
  /\ UNCHANGED appVars

\* getUserMedia rejects (the user denies microphone access): initializeAudio
\* throws, and so does startSession at `await initializeAudio()`.
denied(token) ==
  /\ attempts[token] = "acquiring"
  /\ attempts' = [attempts EXCEPT ![token] = "failed"]
  /\ lastOp' = [op |-> "denied", token |-> token]
  /\ UNCHANGED <<sessionToken, audioContextInRef, audioContextOutRef,
                 streamRef, streams, sessionRef, conns, isActive,
                 currentTime, isModelSpeaking, msgCount>>
  /\ UNCHANGED textVars
  /\ UNCHANGED audioVars
  /\ UNCHANGED appVars

\* the start attempts whose audio contexts are allocated: the pair is
\* constructed by initializeAudio and the component never closes a context
allocatedContexts == {e \in Tokens : attempts[e] # "idle"}

handshakeStale_never(token) == FALSE

\* startSession, `if (token !== sessionTokenRef.current)` after the handshake
handshakeStale(token) == token # sessionToken

\* sessionPromise resolves: startSession continues after `await sessionPromise`.
handshake(token) ==
  /\ attempts[token] = "connecting"
  /\ conns[token] = "connecting"
  /\ IF handshakeStale(token)
       THEN /\ conns' = [conns EXCEPT ![token] = "closing"]
            /\ attempts' = [attempts EXCEPT ![token] = "aborted"]
            /\ UNCHANGED sessionRef
       ELSE /\ conns' = [conns EXCEPT ![token] = "open"]
            /\ attempts' = [attempts EXCEPT ![token] = "done"]
            /\ sessionRef' = token
  /\ lastOp' = [op |-> "handshake", token |-> token]
  /\ UNCHANGED <<sessionToken, audioContextInRef, audioContextOutRef,
                 streamRef, streams, isActive, currentTime, isModelSpeaking,
                 msgCount>>
  /\ UNCHANGED textVars
  /\ UNCHANGED audioVars
  /\ UNCHANGED appVars

\* callbacks.onerror: the connection fails (its close event follows) and
\* the handler logs the error
onerror(c) ==
  /\ conns[c] = "open"
  /\ conns' = [conns EXCEPT ![c] = "closing"]
  /\ lastOp' = [op |-> "error", token |-> c]
  /\ UNCHANGED <<sessionToken, attempts, audioContextInRef, audioContextOutRef,
                 streamRef, streams, sessionRef, isActive, currentTime,
                 isModelSpeaking, msgCount>>
  /\ UNCHANGED textVars
  /\ UNCHANGED audioVars
  /\ UNCHANGED appVars

\* callbacks.onclose
onclose(c) ==
  /\ conns[c] \in {"open", "closing"}
  /\ conns' = [conns EXCEPT ![c] = "closed"]
  /\ isActive' = FALSE
  /\ lastOp' = [op |-> "close", token |-> c]
  /\ UNCHANGED <<sessionToken, attempts, audioContextInRef, audioContextOutRef,
                 streamRef, streams, sessionRef, currentTime, isModelSpeaking,
                 msgCount>>
  /\ UNCHANGED textVars
  /\ UNCHANGED audioVars
  /\ UNCHANGED appVars

\* ----------------------------------------------------------------- capture
\* callbacks.onopen has run for connection c (it runs before sessionPromise
\* resolves): its scriptProcessor is connected and onaudioprocess is set;
\* nothing disconnects the processor or clears the callback afterwards
captureInstalled(c) == conns[c] \in {"open", "closing", "closed"}

\* the samples of getChannelData: sample n stands for the value n / MaxDen
Samples == (0 - MaxDen)..MaxDen

\* the integral part of a / b (b > 0), truncated toward zero
Trunc(a, b) == IF a >= 0 THEN a \div b ELSE 0 - ((0 - a) \div b)

\* storing the number a / b into an Int16Array element (ToInt16): the
\* integral part modulo 2^16, read as a signed 16-bit value
ToInt16(a, b) ==
  LET m == Trunc(a, b) % 65536
  IN  IF m >= 32768 THEN m - 65536 ELSE m

\* onaudioprocess, `int16[i] = inputData[i] * 32768`
encodeSample(n) == ToInt16(n * 32768, MaxDen)

\* scriptProcessor.onaudioprocess of connection c on a frame of samples n:
\* the frame is encoded and
\* `sessionPromise.then(session => session.sendRealtimeInput(...))` hands it
\* to the session of that connection, whatever the session token is
onaudioprocess(c, n) ==
  /\ captureInstalled(c)
  /\ lastOp' = [op |-> "frame", token |-> c, conn |-> conns[c],
                sample |-> n, int16 |-> encodeSample(n)]
  /\ UNCHANGED <<currentTime, isModelSpeaking, msgCount>>
  /\ UNCHANGED lifecycleVars
  /\ UNCHANGED textVars
  /\ UNCHANGED audioVars
  /\ UNCHANGED appVars

\* ------------------------------------------------------- inbound messages
\* A LiveServerMessage: an optional field is <<>> when absent and <<value>>
\* when present; parts holds the decoded duration of each inline audio part.
Message(inTx, outTx, turn, parts, intr) ==
  [inputTranscription |-> inTx, outputTranscription |-> outTx,
   turnComplete |-> turn, parts |-> parts, interrupted |-> intr]

\* onmessage, `if (inputTranscription)` and `if (outputTranscription)`:
\* the pending texts after the merges.
mergedInput(m) ==
  IF m.inputTranscription # <<>>
    THEN mergeTranscript(currentInputText, m.inputTranscription[1])
    ELSE currentInputText

mergedOutput(m) ==
  IF m.outputTranscription # <<>>
    THEN mergeTranscript(currentOutputText, m.outputTranscription[1])
    ELSE currentOutputText

isDuplicateTurn_never(userFinal, modelFinal) == FALSE

\* onmessage, `if (turnComplete)`: isDuplicateTurn
isDuplicateTurn(userFinal, modelFinal) ==
  /\ userFinal = lastCommittedInputRef
  /\ modelFinal = lastCommittedOutputRef

commits_agentFirst(userFinal, modelFinal, now) ==
  IF isDuplicateTurn(userFinal, modelFinal) THEN <<>>
  ELSE (IF modelFinal # <<>>
          THEN <<[speaker |-> "model", text |-> modelFinal, timestamp |-> now]>>
          ELSE <<>>)
       \o
       (IF userFinal # <<>>
          THEN <<[speaker |-> "user", text |-> userFinal, timestamp |-> now]>>
          ELSE <<>>)

\* onmessage, `if (turnComplete)`: the items pushed to commits
commits(userFinal, modelFinal, now) ==
  IF isDuplicateTurn(userFinal, modelFinal) THEN <<>>
  ELSE (IF userFinal # <<>>
          THEN <<[speaker |-> "user", text |-> userFinal, timestamp |-> now]>>
          ELSE <<>>)
       \o
       (IF modelFinal # <<>>
          THEN <<[speaker |-> "model", text |-> modelFinal, timestamp |-> now]>>
          ELSE <<>>)

\* the interruption block when it keeps the agent's pending text
interruptedBlock_keepText(src, stopped) ==
  /\ stoppedSources' = stopped \cup Ids(src)
  /\ sourcesRef' = {}
  /\ nextStartTimeRef' = 0
  /\ currentOutputText' = currentOutputText
  /\ activeModelText' = <<>>
  /\ isModelSpeaking' = FALSE
  /\ lastStarted' = <<>>
  /\ flushCount' = flushCount + 1
  /\ flushChunk' = chunkCount

\* onmessage, `if (interrupted)`, applied to the playback state (src, next)
\* and to the agent's pending text.
interruptedBlock(src, stopped) ==
  /\ stoppedSources' = stopped \cup Ids(src)
  /\ sourcesRef' = {}
  /\ nextStartTimeRef' = 0
  /\ currentOutputText' = <<>>
  /\ activeModelText' = <<>>
  /\ isModelSpeaking' = FALSE
  /\ lastStarted' = <<>>
  /\ flushCount' = flushCount + 1
  /\ flushChunk' = chunkCount

\* The handler suspended in `await decodeAudioData` for the first of parts.
Task(c, parts, intr, id, enq, fl, part) ==
  [conn |-> c, parts |-> parts, interrupted |-> intr,
   id |-> id, enq |-> enq, fl |-> fl, part |-> part]

\* a log replaced by the new items
pushCommits_replace(log, new) == new

\* onmessage, `if (commits.length > 0)`: `[...prev, ...commits]` and
\* `transcriptionRef.current.push(...commits)`
pushCommits(log, new) == log \o new

\* a pending text that survives the turn-complete
resetOnTurn_keep(turn, text) == text

\* onmessage, `if (turnComplete)`: `currentInputText.current = ''` and
\* `currentOutputText.current = ''`
resetOnTurn(turn, text) == IF turn THEN <<>> ELSE text

\* onmessage up to its first `await` (or to its end when no part has audio)
onmessage(c, m) ==
  /\ conns[c] = "open"
  /\ LET in1 == mergedInput(m)
         out1 == mergedOutput(m)
         userFinal == Trim(in1)
         modelFinal == Trim(out1)
         now == msgCount + 1
         dup == isDuplicateTurn(userFinal, modelFinal)
         new == commits(userFinal, modelFinal, now)
         turn == m.turnComplete
         hasAudio == m.parts # <<>>
         out2 == resetOnTurn(turn, out1)
         model2 == IF turn THEN <<>>
                   ELSE IF m.outputTranscription # <<>> THEN out1
                   ELSE activeModelText
         speaking2 == IF turn THEN FALSE ELSE isModelSpeaking
     IN
       /\ currentInputText' = resetOnTurn(turn, in1)
       /\ activeUserText' = IF turn THEN <<>>
                            ELSE IF m.inputTranscription # <<>> THEN in1
                            ELSE activeUserText
       /\ lastCommittedInputRef' =
            IF turn /\ ~dup THEN userFinal ELSE lastCommittedInputRef
       /\ lastCommittedOutputRef' =
            IF turn /\ ~dup THEN modelFinal ELSE lastCommittedOutputRef
       /\ transcription' =
            IF turn THEN pushCommits(transcription, new) ELSE transcription
       /\ transcriptionRef' =
            IF turn THEN pushCommits(transcriptionRef, new) ELSE transcriptionRef
       /\ IF hasAudio
            THEN /\ isModelSpeaking' = TRUE
                 /\ nextStartTimeRef' = Max(nextStartTimeRef, currentTime)
                 /\ chunkCount' = chunkCount + 1
                 /\ tasks' = Append(tasks,
                       Task(c, m.parts, m.interrupted, chunkCount + 1,
                            currentTime, flushCount, 1))
                 /\ currentOutputText' = out2
                 /\ activeModelText' = model2
                 /\ UNCHANGED <<sourcesRef, lastStarted, stoppedSources,
                                flushCount, flushChunk>>
            ELSE /\ IF m.interrupted
                      THEN interruptedBlock(sourcesRef, stoppedSources)
                      ELSE /\ currentOutputText' = out2
                           /\ activeModelText' = model2
                           /\ isModelSpeaking' = speaking2
                           /\ UNCHANGED <<sourcesRef, nextStartTimeRef,
                                          lastStarted, stoppedSources,
                                          flushCount, flushChunk>>
                 /\ UNCHANGED <<tasks, chunkCount>>
  /\ msgCount' = msgCount + 1
  /\ lastOp' = [op |-> "message", token |-> c, msg |-> m]
  /\ UNCHANGED <<currentTime>>
  /\ UNCHANGED lifecycleVars
  /\ UNCHANGED appVars

\* the next start offset when no duration is added to it
advanceNextStart_none(next, dur) == next

\* nextStartTimeRef.current += buffer.duration
advanceNextStart(next, dur) == next + dur

RemoveAt(s, i) == SubSeq(s, 1, i - 1) \o SubSeq(s, i + 1, Len(s))

\* onmessage resumed after `await decodeAudioData` of the first part of
\* tasks[i]: the source is started and the loop goes on to the next part's
\* `await`, or the handler runs to its end.
decoded(i) ==
  /\ i \in 1..Len(tasks)
  /\ LET t == tasks[i]
         dur == Head(t.parts)
         src == [id |-> t.id, at |-> nextStartTimeRef, dur |-> dur,
                 end |-> Max(nextStartTimeRef, currentTime) + dur]
         rec == [id |-> t.id, at |-> nextStartTimeRef, dur |-> dur,
                 enq |-> t.enq, fl |-> t.fl, clk |-> currentTime,
                 part |-> t.part]
         next1 == advanceNextStart(nextStartTimeRef, dur)
         rest == Tail(t.parts)
     IN
       IF rest # <<>>
         THEN /\ lastStarted' = <<rec>>
              /\ sourcesRef' = sourcesRef \cup {src}
              /\ isModelSpeaking' = TRUE
              /\ nextStartTimeRef' = Max(next1, currentTime)
              /\ chunkCount' = chunkCount + 1
              /\ tasks' = [tasks EXCEPT ![i] =
                    Task(t.conn, rest, t.interrupted, chunkCount + 1,
                         currentTime, flushCount, t.part + 1)]
              /\ UNCHANGED <<stoppedSources, flushCount, flushChunk,
                             currentOutputText, activeModelText>>
         ELSE /\ tasks' = RemoveAt(tasks, i)
              /\ IF t.interrupted
                   THEN interruptedBlock(sourcesRef \cup {src}, stoppedSources)
                   ELSE /\ lastStarted' = <<rec>>
                        /\ sourcesRef' = sourcesRef \cup {src}
                        /\ nextStartTimeRef' = next1
                        /\ UNCHANGED <<stoppedSources, flushCount, flushChunk,
                                       currentOutputText, activeModelText,
                                       isModelSpeaking>>
              /\ UNCHANGED chunkCount
  /\ lastOp' = [op |-> "decoded", token |-> tasks[i].conn, id |-> tasks[i].id]
  /\ UNCHANGED <<transcription, transcriptionRef, activeUserText,
                 currentInputText, lastCommittedInputRef,
                 lastCommittedOutputRef, currentTime, msgCount>>
  /\ UNCHANGED lifecycleVars
  /\ UNCHANGED appVars

\* `await decodeAudioData` of the first part of tasks[i] rejects: the
\* handler throws there and runs no further
decodeFailed(i) ==
  /\ i \in 1..Len(tasks)
  /\ tasks' = RemoveAt(tasks, i)
  /\ lastOp' = [op |-> "decodeFailed", token |-> tasks[i].conn,
                id |-> tasks[i].id, rest |-> Len(tasks[i].parts) - 1,
                interrupted |-> tasks[i].interrupted]
  /\ UNCHANGED <<sourcesRef, nextStartTimeRef, lastStarted, stoppedSources,
                 chunkCount, flushCount, flushChunk, currentTime,
                 isModelSpeaking, msgCount>>
  /\ UNCHANGED textVars
  /\ UNCHANGED lifecycleVars
  /\ UNCHANGED appVars

\* the 'ended' listener of a source whose playback finished
ended(s) ==
  /\ s \in sourcesRef
  /\ currentTime >= s.end
  /\ sourcesRef' = sourcesRef \ {s}
  /\ lastOp' = [op |-> "ended", token |-> 0, id |-> s.id]
  /\ UNCHANGED <<nextStartTimeRef, tasks, lastStarted, stoppedSources,
                 chunkCount, flushCount, flushChunk, currentTime,
                 isModelSpeaking, msgCount>>
  /\ UNCHANGED textVars
  /\ UNCHANGED lifecycleVars
  /\ UNCHANGED appVars

\* the output context's clock advances
tick ==
  /\ audioContextOutRef # 0
  /\ currentTime < MaxClock
  /\ currentTime' = currentTime + 1
  /\ lastOp' = [op |-> "tick", token |-> 0]
  /\ UNCHANGED <<isModelSpeaking, msgCount>>
  /\ UNCHANGED textVars
  /\ UNCHANGED audioVars
  /\ UNCHANGED lifecycleVars
  /\ UNCHANGED appVars

\* ---------------------------------------------------------------- the App
\* the items of the array App holds in `history`: the array passed by onEnd
\* is transcriptionRef.current itself
historyItems == IF history = "transcriptionRef" THEN transcriptionRef ELSE <<>>

\* the committed items without the last one
finalHistory_dropLast ==
  SubSeq(transcriptionRef, 1, Len(transcriptionRef) - 1)

\* the items of the array passed to onEnd: transcriptionRef.current
finalHistory == transcriptionRef

\* End Session: onEnd(transcriptionRef.current), App.handleEnd
onEnd ==
  /\ mounted
  /\ state = "ACTIVE"
  /\ history' = "transcriptionRef"
  /\ handed' = <<finalHistory>>
  /\ state' = "EVALUATION"
  /\ lastOp' = [op |-> "end", token |-> sessionToken]
  /\ UNCHANGED <<mounted, currentTime, isModelSpeaking, msgCount>>
  /\ UNCHANGED lifecycleVars
  /\ UNCHANGED textVars
  /\ UNCHANGED audioVars

\* App no longer renders LiveConversation: the mount effect's cleanup runs
\* stopSession
unmount ==
  /\ mounted
  /\ state = "EVALUATION"
  /\ stopSession
  /\ mounted' = FALSE
  /\ UNCHANGED <<state, history, handed>>

\* ------------------------------------------------------------------- Spec
\* The session controller under start/stop races; each inbound message
\* carries one field.
NoMessage == Message(<<>>, <<>>, FALSE, <<>>, FALSE)

Msgs ==
  { [NoMessage EXCEPT !.inputTranscription = << <<"a">> >>],
    [NoMessage EXCEPT !.outputTranscription = << <<"a">> >>],
    [NoMessage EXCEPT !.turnComplete = TRUE],
    [NoMessage EXCEPT !.parts = <<1>>],
    [NoMessage EXCEPT !.interrupted = TRUE] }

Start == startSession

Stop == stopSession /\ UNCHANGED appVars

Acquired == \E e \in Tokens : acquired(e)

Denied == \E e \in Tokens : denied(e)

Handshake == \E e \in Tokens : handshake(e)

Error == \E c \in Tokens : onerror(c)

Close == \E c \in Tokens : onclose(c)

Receive == \E c \in Tokens, m \in Msgs : msgCount < MaxMsgs /\ onmessage(c, m)

Decoded == \E i \in 1..Len(tasks) : decoded(i)

Next ==
  \/ Start
  \/ Stop
  \/ Acquired
  \/ Denied
  \/ Handshake
  \/ Error
  \/ Close
  \/ Receive
  \/ Decoded

Spec == Init /\ [][Next]_vars
\* --------------------------------------------------------- an open session
\* The state after startSession(), getUserMedia and the handshake of the
\* first session: Init, Start, Acquired, Handshake.
InitOpen ==
  /\ sessionToken = 1
  /\ attempts = [e \in Tokens |-> IF e = 1 THEN "done" ELSE "idle"]
  /\ audioContextInRef = 1
  /\ audioContextOutRef = 1
  /\ streamRef = 1
  /\ streams = [e \in Tokens |-> IF e = 1 THEN "live" ELSE "none"]
  /\ sessionRef = 1
  /\ conns = [e \in Tokens |-> IF e = 1 THEN "open" ELSE "none"]
  /\ isActive = TRUE
  /\ transcription = <<>>
  /\ transcriptionRef = <<>>
  /\ activeUserText = <<>>
  /\ activeModelText = <<>>
  /\ isModelSpeaking = FALSE
  /\ currentInputText = <<>>
  /\ currentOutputText = <<>>
  /\ lastCommittedInputRef = <<>>
  /\ lastCommittedOutputRef = <<>>
  /\ sourcesRef = {}
  /\ nextStartTimeRef = 0
  /\ currentTime = 0
  /\ tasks = <<>>
  /\ lastStarted = <<>>
  /\ stoppedSources = {}
  /\ chunkCount = 0
  /\ flushCount = 0
  /\ flushChunk = 0
  /\ msgCount = 0
  /\ lastOp = [op |-> "handshake", token |-> 1]
  /\ state = "ACTIVE"
  /\ history = "initial"
  /\ mounted = TRUE
  /\ handed = <<>>

Opt(S) == {<<>>} \cup {<<x>> : x \in S}

\* --------------------------------------------------------- SpecTranscript
\* The transcript reconciler on one open session: messages carry any
\* combination of transcription deltas, turnComplete and interrupted.
TurnChars == {"a", " "}

TurnMsgs ==
  { Message(i, o, t, <<>>, x) :
      i \in Opt(Texts(TurnChars, MaxDelta)),
      o \in Opt(Texts(TurnChars, MaxDelta)),
      t \in BOOLEAN, x \in BOOLEAN }

ReceiveTurn ==
  \E m \in TurnMsgs : msgCount < MaxTurnMsgs /\ onmessage(1, m)

NextTranscript == ReceiveTurn

SpecTranscript == InitOpen /\ [][NextTranscript]_vars
\* -------------------------------------------------------------- SpecMerge
\* mergeTranscript on every pair of texts: one speaker's pending text is any
\* text (the state after a first delta on an open session), and one more
\* delta arrives for the user or for the agent.
DeltaMsg(user, d) ==
  IF user THEN Message(<<d>>, <<>>, FALSE, <<>>, FALSE)
          ELSE Message(<<>>, <<d>>, FALSE, <<>>, FALSE)

InitMerge ==
  \E user \in BOOLEAN, s \in Texts(Chars, MaxLen) :
    /\ sessionToken = 1
    /\ attempts = [e \in Tokens |-> IF e = 1 THEN "done" ELSE "idle"]
    /\ audioContextInRef = 1
    /\ audioContextOutRef = 1
    /\ streamRef = 1
    /\ streams = [e \in Tokens |-> IF e = 1 THEN "live" ELSE "none"]
    /\ sessionRef = 1
    /\ conns = [e \in Tokens |-> IF e = 1 THEN "open" ELSE "none"]
    /\ isActive = TRUE
    /\ transcription = <<>>
    /\ transcriptionRef = <<>>
    /\ activeUserText = IF user THEN s ELSE <<>>
    /\ activeModelText = IF user THEN <<>> ELSE s
    /\ isModelSpeaking = FALSE
    /\ currentInputText = IF user THEN s ELSE <<>>
    /\ currentOutputText = IF user THEN <<>> ELSE s
    /\ lastCommittedInputRef = <<>>
    /\ lastCommittedOutputRef = <<>>
    /\ sourcesRef = {}
    /\ nextStartTimeRef = 0
    /\ currentTime = 0
    /\ tasks = <<>>
    /\ lastStarted = <<>>
    /\ stoppedSources = {}
    /\ chunkCount = 0
    /\ flushCount = 0
    /\ flushChunk = 0
    /\ msgCount = 1
    /\ lastOp = [op |-> "message", token |-> 1, msg |-> DeltaMsg(user, s)]
    /\ state = "ACTIVE"
    /\ history = "initial"
    /\ mounted = TRUE
    /\ handed = <<>>

ReceiveUserDelta ==
  \E d \in Texts(Chars, MaxLen) : msgCount = 1 /\ onmessage(1, DeltaMsg(TRUE, d))

ReceiveAgentDelta ==
  \E d \in Texts(Chars, MaxLen) : msgCount = 1 /\ onmessage(1, DeltaMsg(FALSE, d))

NextMerge ==
  \/ ReceiveUserDelta
  \/ ReceiveAgentDelta

SpecMerge == InitMerge /\ [][NextMerge]_vars

\* ----------------------------------------------------------- SpecPlayback
\* The playback scheduler on one open session: messages carry audio parts
\* and/or the interrupted flag, decodes complete or fail in any order, the
\* output clock advances and sources end.

\* the decoded duration of a chunk: a short one or a long one
Durations == {1, 2}

\* the audio parts of a message
PartLists == UNION {[1..k -> Durations] : k \in 0..MaxChunks}

AudioMsgs ==
  { Message(<<>>, <<>>, FALSE, ps, x) : ps \in PartLists, x \in BOOLEAN }
    \ {NoMessage}

\* the audio parts of the suspended handlers that are not yet enqueued
RECURSIVE Waiting(_)
Waiting(ts) ==
  IF ts = <<>> THEN 0 ELSE Len(Head(ts).parts) - 1 + Waiting(Tail(ts))

ReceiveAudio ==
  \E m \in AudioMsgs :
    /\ chunkCount + Waiting(tasks) + Len(m.parts) <= MaxChunks
    /\ flushCount < MaxFlush \/ ~m.interrupted
    /\ onmessage(1, m)

DecodeFailed == \E i \in 1..Len(tasks) : decodeFailed(i)

Ended == \E s \in sourcesRef : ended(s)

Tick == tick

NextPlayback ==
  \/ ReceiveAudio
  \/ Decoded
  \/ DecodeFailed
  \/ Ended
  \/ Tick

SpecPlayback == InitOpen /\ [][NextPlayback]_vars

\* --------------------------------------------------------------- SpecTurn
\* Transcript and playback together on one open session: a message carries
\* any combination of a user delta, an agent delta, turnComplete, one audio
\* part and interrupted; decodes complete at any time; the session may be
\* stopped and its connection closes.
TurnAudioMsgs ==
  { Message(i, o, t, ps, x) :
      i \in {<<>>, << <<"a">> >>},
      o \in Opt(Texts(TurnChars, MaxDelta)),
      t \in BOOLEAN, ps \in {<<>>, <<1>>}, x \in BOOLEAN }

ReceiveAny ==
  \E m \in TurnAudioMsgs : msgCount < MaxTurnMsgs /\ onmessage(1, m)

NextTurn ==
  \/ ReceiveAny
  \/ Decoded
  \/ Stop
  \/ Close

SpecTurn == InitOpen /\ [][NextTurn]_vars

\* ---------------------------------------------------------------- SpecEnd
\* Ending an open session: turn-complete messages with optional deltas and
\* audio arrive, the user ends the session, and React runs the cleanup of
\* the unmounted component.
EndMsgs ==
  { Message(i, o, TRUE, ps, FALSE) :
      i \in {<<>>, << <<"a">> >>}, o \in {<<>>, << <<"b">> >>},
      ps \in {<<>>, <<1>>} }

ReceiveEnd ==
  \E m \in EndMsgs : msgCount < MaxTurnMsgs /\ onmessage(1, m)

End == onEnd

Unmount == unmount

NextEnd ==
  \/ ReceiveEnd
  \/ Decoded
  \/ End
  \/ Unmount

SpecEnd == InitOpen /\ [][NextEnd]_vars /\ WF_vars(Unmount)

\* ------------------------------------------------------------ SpecCapture
\* The session controller with the capture pipeline: start/stop races,
\* acquisitions, handshakes and closes, and microphone frames (of any
\* sample value) of every connection whose capture callback is installed.
Frame == \E c \in Tokens, n \in Samples : onaudioprocess(c, n)

NextCapture ==
  \/ Start
  \/ Stop
  \/ Acquired
  \/ Handshake
  \/ Close
  \/ Frame

SpecCapture == Init /\ [][NextCapture]_vars

\* ================================================================ claims
\* The state the user interface and the scheduler expose.
observable ==
  <<currentInputText, currentOutputText, activeUserText, activeModelText,
    isModelSpeaking, transcription, transcriptionRef, lastCommittedInputRef,
    lastCommittedOutputRef, sourcesRef, nextStartTimeRef, isActive>>

\* C1 (as claimed): an inbound event (message or close) of a connection
\* opened at an epoch other than the current one changes no observable state.
C1_StaleEventNoEffect ==
  [][(lastOp'.op \in {"message", "close"} /\ lastOp'.token # sessionToken)
       => UNCHANGED observable]_vars

\* C7: right after stopSession the token is one higher, the held connection
\* is closed and the handle cleared, the held stream's tracks are stopped,
\* every source that was live is stopped, the live set is empty and the
\* session is inactive.
C7_StopPostcondition ==
  [][lastOp'.op = "stop" =>
       /\ sessionToken' = sessionToken + 1
       /\ sessionRef' = 0
       /\ sessionRef # 0 => conns'[sessionRef] \in {"closing", "closed"}
       /\ streamRef # 0 => streams'[streamRef] = "stopped"
       /\ Ids(sourcesRef) \subseteq stoppedSources'
       /\ sourcesRef' = {}
       /\ isActive' = FALSE]_vars

\* C7 witness: stop() has just closed an established connection, stopped a
\* live stream and stopped a source.
C7_Witness ==
  /\ lastOp.op = "stop"
  /\ \E c \in Tokens : attempts[c] = "done" /\ conns[c] = "closing"
  /\ streamRef # 0 /\ streams[streamRef] = "stopped"
  /\ stoppedSources # {}
  /\ flushCount = 0

\* The session is stopped: no connection handle, no live source, inactive,
\* and the held stream (if any) has its tracks stopped.
Stopped ==
  /\ sessionRef = 0
  /\ sourcesRef = {}
  /\ ~isActive
  /\ streamRef # 0 => streams[streamRef] = "stopped"

\* C8 (as claimed): stop() right after stop() changes no controller state,
\* the session epoch included.
C8_StopNoOp ==
  [][(lastOp.op = "stop" /\ lastOp'.op = "stop") =>
       UNCHANGED <<sessionToken, sessionRef, conns, streamRef, streams,
                   sourcesRef, nextStartTimeRef, isActive>>]_vars

\* C8 (amended): stop() on a stopped session increments the session epoch
\* and changes nothing else of the controller state.
C8_StopOnlyBumpsEpoch ==
  [][(Stopped /\ lastOp'.op = "stop") =>
       /\ sessionToken' = sessionToken + 1
       /\ UNCHANGED <<sessionRef, conns, streamRef, streams,
                      sourcesRef, nextStartTimeRef, isActive>>]_vars

\* C8 witness: start, acquisition, handshake, audio played, stop(), stop().
C8_Witness ==
  /\ lastOp = [op |-> "stop", token |-> 3]
  /\ attempts[1] = "done" /\ attempts[2] = "idle"
  /\ conns[1] = "closing"
  /\ nextStartTimeRef > 0
  /\ Stopped

\* C9 (as claimed): when acquisition completes for a start() whose epoch is
\* no longer current, no connection is opened, the active flag is not set
\* and no reference of the controller is replaced.
C9_AbortedAcquireNoState ==
  [][(lastOp'.op = "acquired" /\ lastOp'.token # sessionToken) =>
       UNCHANGED <<conns, isActive, sessionRef, streamRef,
                   audioContextInRef, audioContextOutRef>>]_vars

\* C10: when the handshake resolves for a start() whose epoch is no longer
\* current, the connection is closed and not stored; the session handle is
\* only ever set by a handshake whose start() holds the current epoch.
C10_HandshakeRace ==
  [][/\ (lastOp'.op = "handshake" /\ lastOp'.token # sessionToken) =>
          /\ conns'[lastOp'.token] \in {"closing", "closed"}
          /\ sessionRef' = sessionRef
          /\ sessionRef' # lastOp'.token
     /\ (sessionRef' # sessionRef /\ sessionRef' # 0) =>
          /\ lastOp'.op = "handshake"
          /\ sessionRef' = lastOp'.token
          /\ lastOp'.token = sessionToken]_vars

\* C10 witness: a handshake has just resolved for a superseded start().
C10_Witness ==
  /\ lastOp.op = "handshake"
  /\ lastOp.token # sessionToken
  /\ attempts[lastOp.token] = "aborted"
  /\ conns[lastOp.token] = "closing"
\* p is a leading substring of s
LeadsWith(s, p) == Len(p) <= Len(s) /\ \A i \in 1..Len(p) : s[i] = p[i]

\* res is what the merge policy of the transcript reconciler gives for
\* (cur, inc)
MergePolicy(cur, inc, res) ==
  /\ inc = <<>> => res = cur
  /\ (inc # <<>> /\ LeadsWith(inc, cur)) => res = inc
  /\ (inc # <<>> /\ ~LeadsWith(inc, cur) /\ LeadsWith(cur, inc)) => res = cur
  /\ (inc # <<>> /\ ~LeadsWith(inc, cur) /\ ~LeadsWith(cur, inc)) =>
       res = cur \o inc
  /\ (inc # <<>> /\ inc = cur) => res = cur

\* C2: a transcription delta leaves the speaker's pending text (and caption)
\* equal to the merge policy's result - current for an empty delta, the delta
\* when it starts with current, current when it starts with the delta, else
\* current followed by the delta - for the user and for the agent alike.
C2_MergePolicy ==
  [][lastOp'.op = "message" =>
       LET m == lastOp'.msg IN
         /\ m.inputTranscription # <<>> =>
              /\ MergePolicy(currentInputText, m.inputTranscription[1],
                             currentInputText')
              /\ activeUserText' = currentInputText'
         /\ m.outputTranscription # <<>> =>
              /\ MergePolicy(currentOutputText, m.outputTranscription[1],
                             currentOutputText')
              /\ activeModelText' = currentOutputText']_vars

\* C2 witness: a non-empty delta that neither extends nor restates the
\* agent's non-empty pending text has been appended to it.
C2_Witness ==
  /\ msgCount = 2
  /\ lastOp.op = "message"
  /\ lastOp.msg.outputTranscription # <<>>
  /\ LET d == lastOp.msg.outputTranscription[1] IN
       /\ d # <<>>
       /\ Len(currentOutputText) > Len(d)
       /\ ~LeadsWith(currentOutputText, d)
       /\ SubSeq(currentOutputText, Len(currentOutputText) - Len(d) + 1,
                 Len(currentOutputText)) = d

\* t is s without its leading and trailing whitespace
IsTrimOf(t, s) ==
  IF t = <<>>
    THEN \A k \in 1..Len(s) : s[k] = " "
    ELSE /\ t[1] # " "
         /\ t[Len(t)] # " "
         /\ \E i \in 1..Len(s) :
              /\ i + Len(t) - 1 <= Len(s)
              /\ SubSeq(s, i, i + Len(t) - 1) = t
              /\ \A k \in 1..Len(s) :
                   (k < i \/ k > i + Len(t) - 1) => s[k] = " "

\* the speakers and texts of a log, in order
Spoken(log) == [i \in 1..Len(log) |-> <<log[i].speaker, log[i].text>>]

\* the speakers and texts a commit of the pair (u, a) appends
PairSpoken(u, a) ==
  (IF u # <<>> THEN << <<"user", u>> >> ELSE <<>>)
    \o (IF a # <<>> THEN << <<"model", a>> >> ELSE <<>>)

\* the turn-complete of this step sees a pending pair whose trimmed texts
\* are the last committed pair
DuplicateStep ==
  /\ IsTrimOf(lastCommittedInputRef, mergedInput(lastOp'.msg))
  /\ IsTrimOf(lastCommittedOutputRef, mergedOutput(lastOp'.msg))

TurnStep == lastOp'.op = "message" /\ lastOp'.msg.turnComplete

\* C3: a turn-complete whose trimmed pending pair equals the last committed
\* pair appends nothing and leaves the last committed pair alone; a
\* turn-complete whose pair differs in either text appends a segment for
\* each non-empty text.
C3_DuplicateTurn ==
  [][TurnStep =>
       /\ DuplicateStep =>
            UNCHANGED <<transcriptionRef, transcription,
                        lastCommittedInputRef, lastCommittedOutputRef>>
       /\ ~DuplicateStep =>
            \/ Len(transcriptionRef') > Len(transcriptionRef)
            \/ /\ IsTrimOf(<<>>, mergedInput(lastOp'.msg))
               /\ IsTrimOf(<<>>, mergedOutput(lastOp'.msg))]_vars

\* C3 witness: two consecutive turn-completes carried the same pair and the
\* log holds the one pair committed by the first.
C3_Witness ==
  /\ msgCount = 2
  /\ lastOp.op = "message"
  /\ lastOp.msg = Message(<< <<"a">> >>, << <<"a">> >>, TRUE, <<>>, FALSE)
  /\ transcriptionRef =
       << [speaker |-> "user", text |-> <<"a">>, timestamp |-> 1],
          [speaker |-> "model", text |-> <<"a">>, timestamp |-> 1] >>
  /\ lastCommittedInputRef = <<"a">>
  /\ lastCommittedOutputRef = <<"a">>

\* C4: a turn-complete whose trimmed pending pair differs from the last
\* committed pair makes that pair the last committed one and extends the log
\* by the user segment (if its text is non-empty) then the agent segment (if
\* non-empty) and nothing else; no segment of the log has an empty text.
C4_Commit ==
  [][TurnStep =>
       /\ ~DuplicateStep =>
            /\ IsTrimOf(lastCommittedInputRef', mergedInput(lastOp'.msg))
            /\ IsTrimOf(lastCommittedOutputRef', mergedOutput(lastOp'.msg))
            /\ Len(transcriptionRef') >= Len(transcriptionRef)
            /\ SubSeq(transcriptionRef', 1, Len(transcriptionRef))
                 = transcriptionRef
            /\ Spoken(transcriptionRef') =
                 Spoken(transcriptionRef)
                   \o PairSpoken(lastCommittedInputRef', lastCommittedOutputRef')
            /\ transcription' = transcriptionRef'
       /\ \A k \in 1..Len(transcriptionRef') :
            transcriptionRef'[k].text # <<>>]_vars

\* C4 witness: user deltas "a" then " " and agent delta "a", then
\* turn-complete: the log is [user "a", agent "a"] and nothing is pending.
C4_Witness ==
  /\ msgCount = 2
  /\ lastOp.op = "message"
  /\ lastOp.msg = Message(<< <<" ">> >>, << <<"a">> >>, TRUE, <<>>, FALSE)
  /\ Spoken(transcriptionRef) = << <<"user", <<"a">> >>, <<"model", <<"a">> >> >>
  /\ transcriptionRef[1].timestamp = 2
  /\ currentInputText = <<>>
  /\ currentOutputText = <<>>

\* --------------------------------------------------------------- playback
\* a step that starts a source: `decoded` when the handler does not flush
\* in the same step
StartStep == lastOp'.op = "decoded" /\ lastStarted' # <<>>

\* a step that runs the interruption block
FlushStep == flushCount' = flushCount + 1

Disjoint(s1, s2) == s1.at + s1.dur <= s2.at \/ s2.at + s2.dur <= s1.at

C6_FlushReanchors ==
  [][/\ FlushStep =>
          /\ Ids(sourcesRef) \subseteq stoppedSources'
          /\ sourcesRef' = {}
          /\ nextStartTimeRef' = 0
     /\ StartStep =>
          LET new == lastStarted'[1] IN
            (/\ flushCount >= 1
             /\ new.fl = flushCount
             /\ new.id = flushChunk + 1
             /\ new.part = 1
             /\ chunkCount' = new.id)
              => new.at = new.enq]_vars

\* ----------------------------------------------------------- interruption
\* the message of this step carries the interrupted flag and nothing else
OnlyInterrupted ==
  /\ lastOp'.op = "message"
  /\ lastOp'.msg = [NoMessage EXCEPT !.interrupted = TRUE]

\* the agent delta of the message of this step ("" when it has none)
AgentDelta ==
  IF lastOp'.msg.outputTranscription = <<>> THEN <<>>
  ELSE lastOp'.msg.outputTranscription[1]

\* the previous step handled a message that ended in the interruption block
AfterInterruption ==
  /\ lastOp.op = "message"
  /\ lastOp.msg.interrupted
  /\ lastOp.msg.parts = <<>>

EndStep == lastOp'.op = "end"

UnmountStep == mounted /\ ~mounted'

\* C12: ending the session hands the caller the committed items, all of
\* them and in commit order (the items shown as committed and the items of
\* transcriptionRef), and changes neither log; the cleanup that follows
\* advances the epoch, closes the held connection and clears the handle,
\* stops the tracks of the held stream and stops and clears the live
\* sources; and the cleanup of every ended session eventually runs.
C12_End ==
  /\ [][/\ EndStep =>
             /\ handed' = <<transcription>>
             /\ historyItems' = transcription
             /\ UNCHANGED <<transcription, transcriptionRef>>
        /\ UnmountStep =>
             /\ sessionToken' = sessionToken + 1
             /\ sessionRef' = 0
             /\ sessionRef # 0 => conns'[sessionRef] \in {"closing", "closed"}
             /\ streamRef # 0 => streams'[streamRef] = "stopped"
             /\ Ids(sourcesRef) \subseteq stoppedSources'
             /\ sourcesRef' = {}
             /\ isActive' = FALSE]_vars
  /\ (state = "EVALUATION" /\ mounted) ~> ~mounted

\* C12 witness: a turn with user text "a", agent text "b" and audio was
\* committed and its source started; the user ended the session and the
\* cleanup ran: the caller holds [user "a", agent "b"], the connection is
\* closing and the stream and the source are stopped.
C12_Witness ==
  /\ ~mounted
  /\ state = "EVALUATION"
  /\ handed # <<>>
  /\ Spoken(handed[1]) = << <<"user", <<"a">> >>, <<"model", <<"b">> >> >>
  /\ historyItems = handed[1]
  /\ sessionToken = 2
  /\ conns[1] = "closing"
  /\ streams[1] = "stopped"
  /\ stoppedSources = {1}
  /\ Stopped

\* --------------------------------------------------------- single session
LiveStreams == {e \in Tokens : streams[e] = "live"}

OpenConns == {c \in Tokens : conns[c] = "open"}

\* C13 (as claimed): at any time at most one microphone stream is live and
\* at most one connection is open.
C13_SingleSession ==
  /\ Cardinality(LiveStreams) <= 1
  /\ Cardinality(OpenConns) <= 1

\* ------------------------------------------------------ permission denial
\* C14 (as claimed): when microphone access is denied the attempt fails,
\* the active flag and the connections are left alone, and nothing the
\* attempt allocated remains: no audio context and no stream.
C14_DenialNoLeak ==
  [][lastOp'.op = "denied" =>
       LET e == lastOp'.token IN
         /\ attempts'[e] = "failed"
         /\ UNCHANGED <<isActive, conns, sessionRef>>
         /\ streams'[e] = "none"
         /\ e \notin allocatedContexts'
         /\ audioContextInRef' # e
         /\ audioContextOutRef' # e]_vars

\* ------------------------------------------------------- error and close
\* C15 (as claimed): after an error event of a connection, and after a
\* close event, the active flag is false; and neither event starts a new
\* attempt or opens a connection.
C15_ErrorOrCloseInactive ==
  [][lastOp'.op \in {"error", "close"} =>
       /\ isActive' = FALSE
       /\ UNCHANGED <<attempts, sessionToken>>
       /\ \A c \in Tokens :
            conns'[c] \in {"connecting", "open"} => conns'[c] = conns[c]]_vars

\* ---------------------------------------------------------- pending reset
\* C16 as stated: after a turn-complete is handled, committed or not,
\* both pending texts and both captions are empty and the agent-speaking
\* indicator is false; the user's pending text loses text only at a
\* turn-complete, the agent's only at a turn-complete or an interruption.
C16_TurnResets ==
  [][/\ TurnStep =>
          /\ currentInputText' = <<>>
          /\ currentOutputText' = <<>>
          /\ activeUserText' = <<>>
          /\ activeModelText' = <<>>
          /\ isModelSpeaking' = FALSE
     /\ ~StartsWith(currentInputText', currentInputText) => TurnStep
     /\ ~StartsWith(currentOutputText', currentOutputText) =>
          TurnStep \/ FlushStep]_vars

\* C16 amended: after a turn-complete is handled, committed or not, both
\* pending texts and both captions are empty, and the agent-speaking
\* indicator is false unless the same message carries inline audio, which
\* is handled after the turn-complete and sets it; the user's pending text
\* loses text only at a turn-complete, the agent's only at a turn-complete
\* or an interruption.
C16_TurnResetsTexts ==
  [][/\ TurnStep =>
          /\ currentInputText' = <<>>
          /\ currentOutputText' = <<>>
          /\ activeUserText' = <<>>
          /\ activeModelText' = <<>>
          /\ isModelSpeaking' = (lastOp'.msg.parts # <<>>)
     /\ ~StartsWith(currentInputText', currentInputText) => TurnStep
     /\ ~StartsWith(currentOutputText', currentOutputText) =>
          TurnStep \/ FlushStep]_vars

\* C16 witness: both speakers had pending text "a"; a turn-complete that
\* also carries audio committed the pair, emptied the pending texts and the
\* captions, and left the agent-speaking indicator set.
C16_Witness ==
  /\ msgCount = 2
  /\ lastOp.op = "message"
  /\ lastOp.msg = Message(<<>>, <<>>, TRUE, <<1>>, FALSE)
  /\ Spoken(transcriptionRef) = << <<"user", <<"a">> >>, <<"model", <<"a">> >> >>
  /\ currentInputText = <<>> /\ currentOutputText = <<>>
  /\ activeUserText = <<>> /\ activeModelText = <<>>
  /\ isModelSpeaking

\* ------------------------------------------------------------ append-only
\* log2 is log1, or log1 with items added at its end
Extends(log2, log1) ==
  /\ Len(log2) >= Len(log1)
  /\ SubSeq(log2, 1, Len(log1)) = log1

\* C17: in every step the committed log, as held in transcriptionRef and as
\* displayed, stays the same or grows at its end, and it changes only in a
\* step that handles a turn-complete.
C17_AppendOnly ==
  [][/\ Extends(transcriptionRef', transcriptionRef)
     /\ Extends(transcription', transcription)
     /\ transcriptionRef' # transcriptionRef => TurnStep
     /\ transcription' # transcription => TurnStep]_vars

\* C17 witness: two turns were committed one after the other, the second
\* behind the first, and the session was stopped and its connection
\* closed with the log as it was.
C17_Witness ==
  /\ lastOp.op = "close"
  /\ sessionToken = 2
  /\ msgCount = 2
  /\ Len(transcriptionRef) = 3
  /\ transcriptionRef[1].timestamp = 1
  /\ transcriptionRef[2].timestamp = 2
  /\ transcriptionRef[3].timestamp = 2
  /\ transcription = transcriptionRef

\* ------------------------------------------------------- playback order
\* C18 (as claimed): a source is started at an offset that is not before
\* the output clock at the moment of the start call.
C18_NeverInPast ==
  [][StartStep => lastStarted'[1].at >= lastStarted'[1].clk]_vars

\* C19 (as claimed): of two chunks that arrived since the last flush, each
\* the first audio part of its message, and that are started one after the
\* other, the one that arrived first has the earlier start offset.
C19_OrderPreserved ==
  [][(/\ StartStep
      /\ lastStarted # <<>>
      /\ lastStarted[1].part = 1 /\ lastStarted'[1].part = 1
      /\ lastStarted[1].fl = flushCount /\ lastStarted'[1].fl = flushCount)
       => (lastStarted[1].id < lastStarted'[1].id
             <=> lastStarted[1].at < lastStarted'[1].at)]_vars

\* --------------------------------------------------------- decode failure
\* C20 (as claimed): when the decode of a chunk fails, no source is added
\* and the next start offset is not advanced by the chunk, the session
\* stays active with its connection open, the handler goes on to the next
\* audio part of the same message if there is one, and otherwise runs the
\* interruption block if the message carries the interrupted flag.
C20_DecodeFailureNonFatal ==
  [][lastOp'.op = "decodeFailed" =>
       /\ Ids(sourcesRef') \subseteq Ids(sourcesRef)
       /\ nextStartTimeRef' <= Max(nextStartTimeRef, currentTime)
       /\ UNCHANGED <<isActive, conns, sessionRef>>
       /\ lastOp'.rest > 0 =>
            /\ Len(tasks') = Len(tasks)
            /\ chunkCount' = chunkCount + 1
       /\ (lastOp'.rest = 0 /\ lastOp'.interrupted) => FlushStep]_vars

\* ------------------------------------------------------- the session epoch
\* C21: the session token never decreases; every start() and every stop()
\* increases it by exactly 1, and no other step (acquisition completion or
\* denial, handshake, error, close, inbound message, decode completion)
\* changes it.
C21_EpochMonotonic ==
  [][/\ sessionToken' >= sessionToken
     /\ lastOp'.op \in {"start", "stop"} => sessionToken' = sessionToken + 1
     /\ lastOp'.op \notin {"start", "stop"} => sessionToken' = sessionToken]_vars

\* C21 witness: start(), stop() and start() again have brought the token
\* to 3 while the first start's acquisition has completed in between.
C21_Witness ==
  /\ lastOp = [op |-> "start", token |-> 3]
  /\ sessionToken = 3
  /\ attempts[1] \in {"aborted", "done", "connecting"}
  /\ attempts[2] = "idle"
  /\ attempts[3] = "acquiring"

\* ------------------------------------------------------- discarded audio
\* the suspended handler that holds chunk id
TaskOf(id) == CHOOSE i \in 1..Len(tasks) : tasks[i].id = id

\* C22 (as claimed): a decode completion adds a source to the live set
\* only when neither stop() nor an interruption has run since the chunk
\* arrived: the connection of the chunk is still the held one and no
\* interruption was handled since.
C22_NoDiscardedPlayback ==
  [][(lastOp'.op = "decoded" /\ sourcesRef' # sourcesRef) =>
       /\ sessionRef = lastOp'.token
       /\ tasks[TaskOf(lastOp'.id)].fl = flushCount]_vars

\* --------------------------------------------------------- microphone leak
\* the last call of start()/stop() was a stop(): the current token was
\* taken by no start
StopWasLast == sessionToken \in Tokens /\ attempts[sessionToken] = "idle"

\* no start is suspended in getUserMedia or in the handshake
NoPendingStart ==
  \A e \in Tokens : attempts[e] \notin {"acquiring", "connecting"}

\* C23 (as claimed): once stop() was the last call and every pending
\* continuation of a start has run, no acquired microphone stream has live
\* tracks.
C23_NoMicLeak == (StopWasLast /\ NoPendingStart) => LiveStreams = {}

\* ------------------------------------------------- the handed-off history
\* C24 (as claimed): the items of the array the evaluation view holds are
\* at all times the items it received when the session was ended.
C24_HandedStable == handed # <<>> => historyItems = handed[1]

\* ---------------------------------------------------------- outbound audio
\* C25 (as claimed): a microphone frame goes out on an open connection only
\* from the capture callback of the current session token: once stop() or
\* a later start() has advanced the token, no frame of the earlier
\* session's callback is sent on its connection.
C25_NoFrameAfterStop ==
  [][(lastOp'.op = "frame" /\ lastOp'.conn = "open")
       => lastOp'.token = sessionToken]_vars

\* ------------------------------------------------------------ pending text
\* C26: a step leaves each speaker's pending text with the previous
\* pending text as a prefix, unless the step handles a turn-complete or,
\* for the agent's text, runs the interruption block; so every merge of a
\* partial transcript extends the pending text.
C26_PendingExtends ==
  [][/\ ~StartsWith(currentInputText', currentInputText) => TurnStep
     /\ ~StartsWith(currentOutputText', currentOutputText)
          => (TurnStep \/ FlushStep)]_vars

\* C26 witness: a delta that is neither an extension nor a prefix of the
\* user's pending text "ab" has been appended to it.
C26_Witness ==
  /\ lastOp.op = "message"
  /\ msgCount = 2
  /\ ~lastOp.msg.turnComplete
  /\ lastOp.msg.inputTranscription = << <<"b", "a">> >>
  /\ currentInputText = <<"a", "b", "b", "a">>

\* ----------------------------------------------------------- PCM encoding
\* C27 (as claimed): the value emitted for a sample s = n / MaxDen in
\* [-1, 1] is s * 32768 truncated toward zero, lies in [-32768, 32767] and
\* never has the sign opposite to that of s.
C27_EncodeNoWrap ==
  [][lastOp'.op = "frame" =>
       LET n == lastOp'.sample
           v == lastOp'.int16
       IN  /\ v = Trunc(n * 32768, MaxDen)
           /\ v \in (0 - 32768)..32767
           /\ n > 0 => v >= 0
           /\ n < 0 => v <= 0]_vars
====
